---- MODULE Spec2Model ----
(***************************************************************************)
(* sl-feeds: mirror a distribution's ChangeLog.txt into per-release RSS    *)
(* feeds.  The model covers the per-release loop of main (app.Action) and  *)
(* the two fetch entry points Repo.ChangeLog and Repo.NewerChangeLog.      *)
(*                                                                         *)
(* Time is a natural number of seconds.  The remote server and the local   *)
(* file system are the environment: the server's state is remote[url], the *)
(* destination directory is files[path].                                   *)
(***************************************************************************)
EXTENDS Integers, Sequences, FiniteSets, TLC

\* ------------------------------------------------------------- bounds
\* number of runs of the program over the same destination directory
MaxRuns == 2
\* number of times a remote document is replaced by a newer one
MaxChanges == 2

\* ------------------------------------------------------------- configuration
\* config := Config{}, as decoded from the configuration file by app.Before
VARIABLE config

\* a configuration whose second mirror sets a prefix
PrefixedConfig ==
  [Mirrors |->
    << [URL |-> "http://a", Prefix |-> "", Releases |-> << "r1" >>],
       [URL |-> "http://b", Prefix |-> "b-", Releases |-> << "r1" >>] >>]

\* a configuration whose two mirrors carry the same release and no prefix
UnprefixedConfig ==
  [Mirrors |->
    << [URL |-> "http://a", Prefix |-> "", Releases |-> << "r1" >>],
       [URL |-> "http://b", Prefix |-> "", Releases |-> << "r1" >>] >>]

\* Config.Mirrors: the (URL, Prefix, Releases) tuples handed to the loop
Mirrors == config.Mirrors

\* os.ExpandEnv(config.Dest)
dest == "feeds"

RECURSIVE PairsFrom(_, _, _)
\* the (mirror, release) pairs of the mirrors ms, in the order the nested
\* range loops visit them
PairsFrom(ms, mi, ri) ==
  IF mi > Len(ms) THEN << >>
  ELSE IF ri > Len(ms[mi].Releases) THEN PairsFrom(ms, mi + 1, 1)
  ELSE << [mirror |-> ms[mi], release |-> ms[mi].Releases[ri]] >>
         \o PairsFrom(ms, mi, ri + 1)

PrefixedPairs == PairsFrom(PrefixedConfig.Mirrors, 1, 1)

UnprefixedPairs == PairsFrom(UnprefixedConfig.Mirrors, 1, 1)

\* the pairs of config.Mirrors
Pairs ==
  CASE config = PrefixedConfig -> PrefixedPairs
    [] config = UnprefixedConfig -> UnprefixedPairs
    [] OTHER -> PairsFrom(Mirrors, 1, 1)

NPairs == Len(Pairs)

\* fetch.Repo{URL: mirror.URL, Release: release}
Repo(p) == [URL |-> p.mirror.URL, Release |-> p.release]

\* filepath.Join(dest, mirror.Prefix+release+".rss")
DestPath(p) == dest \o "/" \o p.mirror.Prefix \o p.release \o ".rss"

\* ------------------------------------------------------------- fetch package
\* the locator Repo.head requests
head(r, file) == r.URL \o "/" \o file

\* the locator Repo.get requests
get(r, file) == r.URL \o "/" \o file

nil == [kind |-> "nil"]

\* var NotNewer: the distinguished "remote file is not newer" value
NotNewer == [kind |-> "NotNewer"]

\* fetch.ErrNotNewer, the name main compares err with: the same value
ErrNotNewer == NotNewer

\* http.StatusOK
StatusOK == 200

\* time.Unix(0, 0)
UnixZero == 0

\* the Last-Modified header value an HTTP server sends for time t
FormatTime(t) == << "http-date", t >>

\* a ParseTime that takes a header it cannot read for the zero time
ParseTimeLenient(text) ==
  IF Len(text) = 2 /\ text[1] = "http-date"
  THEN [t |-> text[2], err |-> nil]
  ELSE [t |-> UnixZero, err |-> nil]

\* http.ParseTime: the time of a well-formed header value, an error otherwise
ParseTime(text) ==
  IF Len(text) = 2 /\ text[1] = "http-date"
  THEN [t |-> text[2], err |-> nil]
  ELSE [t |-> UnixZero, err |-> [kind |-> "parsetime"]]

\* resp.Header.Get("last-modified"): the empty string when the header is absent
HeaderGet(resp) ==
  IF resp.LastModified.present THEN resp.LastModified.text ELSE << >>

\* changelog.Parse(resp.Body): the document's blocks, in document order
Parse(body) ==
  IF body.wellformed
  THEN [e |-> body.blocks, err |-> nil]
  ELSE [e |-> << >>, err |-> [kind |-> "parse"]]

\* a ChangeLog that does not look at the response status
ChangeLogAnyStatus(resp) ==
  IF resp.err # nil
  THEN [e |-> << >>, mtime |-> UnixZero, err |-> resp.err]
  ELSE LET pt == ParseTimeLenient(HeaderGet(resp)) IN
       LET p == Parse(resp.Body) IN
       IF p.err # nil
       THEN [e |-> << >>, mtime |-> pt.t, err |-> p.err]
       ELSE [e |-> p.e, mtime |-> pt.t, err |-> nil]

\* Repo.ChangeLog, given the answer to its GET request
ChangeLog(resp) ==
  IF resp.err # nil
  THEN [e |-> << >>, mtime |-> UnixZero, err |-> resp.err]
  ELSE IF resp.StatusCode # StatusOK
  THEN [e |-> << >>, mtime |-> UnixZero,
        err |-> [kind |-> "status", code |-> resp.StatusCode, url |-> resp.URL]]
  ELSE LET pt == ParseTime(HeaderGet(resp)) IN
       IF pt.err # nil
       THEN [e |-> << >>, mtime |-> UnixZero, err |-> pt.err]
       ELSE LET p == Parse(resp.Body) IN
            IF p.err # nil
            THEN [e |-> << >>, mtime |-> pt.t, err |-> p.err]
            ELSE [e |-> p.e, mtime |-> pt.t, err |-> nil]

\* a comparison that takes an equal time for a newer one
AfterOrEqual(mtime, than) == mtime >= than

\* mtime.After(than)
After(mtime, than) == mtime > than

\* a NewerChangeLog that goes on to the full fetch when its HEAD request fails
NewerChangeLogFallsBack(resp, than) ==
  IF resp.err # nil \/ resp.StatusCode # StatusOK
  THEN [call |-> TRUE, e |-> << >>, mtime |-> UnixZero, err |-> nil]
  ELSE LET pt == ParseTime(HeaderGet(resp)) IN
       IF pt.err # nil
       THEN [call |-> FALSE, e |-> << >>, mtime |-> UnixZero, err |-> pt.err]
       ELSE IF pt.t > than
       THEN [call |-> TRUE, e |-> << >>, mtime |-> pt.t, err |-> nil]
       ELSE [call |-> FALSE, e |-> << >>, mtime |-> UnixZero, err |-> NotNewer]

\* Repo.NewerChangeLog up to its call of r.ChangeLog(), given the answer to
\* its HEAD request: either it returns (call = FALSE) or it calls ChangeLog
NewerChangeLog(resp, than) ==
  IF resp.err # nil
  THEN [call |-> FALSE, e |-> << >>, mtime |-> UnixZero, err |-> resp.err]
  ELSE IF resp.StatusCode # StatusOK
  THEN [call |-> FALSE, e |-> << >>, mtime |-> UnixZero,
        err |-> [kind |-> "status", code |-> resp.StatusCode, url |-> resp.URL]]
  ELSE LET pt == ParseTime(HeaderGet(resp)) IN
       IF pt.err # nil
       THEN [call |-> FALSE, e |-> << >>, mtime |-> UnixZero, err |-> pt.err]
       ELSE IF After(pt.t, than)
       THEN [call |-> TRUE, e |-> << >>, mtime |-> pt.t, err |-> nil]
       ELSE [call |-> FALSE, e |-> << >>, mtime |-> UnixZero, err |-> NotNewer]

\* a fall-through that keeps the time of the HEAD request
NewerReturnHeadTime(headMtime, cl) == [cl EXCEPT !.mtime = headMtime]

\* "return r.ChangeLog()": what NewerChangeLog returns once it has called
\* ChangeLog; headMtime is the time its own HEAD request saw
NewerReturn(headMtime, cl) == cl

\* ------------------------------------------------------------- environment
\* the conditions a remote server can be in for one locator
Conds == {"ok", "down", "notfound", "nohead", "nolm", "badlm", "badbody"}

NoHeader == [present |-> FALSE, text |-> << >>]

NoBody == [wellformed |-> TRUE, blocks |-> << >>]

\* the answer to a request (method, url) of a server in condition c whose
\* document was last modified at lm
Serve(lm, c, method, url) ==
  LET base == [err |-> nil, StatusCode |-> StatusOK,
               LastModified |-> [present |-> TRUE, text |-> FormatTime(lm)],
               Body |-> IF method = "GET"
                        THEN [wellformed |-> TRUE,
                              blocks |-> << [url |-> url, lm |-> lm] >>]
                        ELSE NoBody,
               URL |-> url]
  IN CASE c = "down" ->
            [base EXCEPT !.err = [kind |-> "transport", url |-> url],
                         !.StatusCode = 0, !.LastModified = NoHeader, !.Body = NoBody]
       [] c = "notfound" ->
            [base EXCEPT !.StatusCode = 404, !.LastModified = NoHeader]
       [] c = "nohead" /\ method = "HEAD" ->
            [base EXCEPT !.StatusCode = 405, !.LastModified = NoHeader]
       [] c = "nolm" ->
            [base EXCEPT !.LastModified = NoHeader]
       [] c = "badlm" ->
            [base EXCEPT !.LastModified = [present |-> TRUE, text |-> << "garbage" >>]]
       [] c = "badbody" /\ method = "GET" ->
            [base EXCEPT !.Body = [wellformed |-> FALSE, blocks |-> << >>]]
       [] OTHER -> base

\* the locators the program can request
Locators == { head(Repo(Pairs[k]), "ChangeLog.txt") : k \in 1..NPairs }

\* the destination paths the program can touch
Paths == { DestPath(Pairs[k]) : k \in 1..NPairs }

NoFile == [exists |-> FALSE, content |-> [kind |-> "none"], mtime |-> UnixZero]

\* ------------------------------------------------------------- state
VARIABLES
  run,        \* number of the current run
  quiet,      \* c.Bool("quiet")
  i,          \* index into Pairs of the pair being processed
  pc,         \* position in the loop body
  files,      \* destination directory: path -> file
  remote,     \* remote servers: locator -> modification time of its document
  cond,       \* condition of the server at the current pair's latest request
  now,        \* wall-clock time
  changes,    \* number of remote document changes so far
  stat,       \* os.Stat result for the current pair
  entries,    \* local entries
  mtime,      \* local mtime
  err,        \* local err
  feeds,      \* local feeds
  hresp,      \* resp of NewerChangeLog (<< >> when no HEAD was issued)
  gresp,      \* resp of ChangeLog (<< >> when no GET was issued)
  reqs,       \* requests issued for the current pair, in order
  logs,       \* lines logged for the current pair, in order
  steps,      \* steps of the loop body taken for the current pair
  before,     \* the destination file as it was when the pair started
  processed,  \* indices of the pairs completed in this run, in order
  atStart,    \* the destination directory as it was when this run started
  streak,     \* number of runs, this one included, without a failed step or a
              \* remote change since a run that started on an empty directory
  clean       \* no step has failed and no remote has changed in this run so far

vars == << config, run, quiet, i, pc, files, remote, cond, now, changes, stat, entries, mtime,
           err, feeds, hresp, gresp, reqs, logs, steps, before, processed,
           atStart, streak, clean >>

hist == << processed, atStart >>

locals == << stat, entries, mtime, err, feeds, hresp, gresp, cond >>

env == << remote, now, changes >>

NoStat == [exists |-> FALSE, ModTime |-> UnixZero]

NoFeed == [Title |-> "", Link |-> "", Items |-> << >>]

\* the state in which the program starts on an empty destination directory
\* with configuration c
InitWith(c) ==
  /\ config = c
  /\ run = 1
  /\ quiet \in BOOLEAN
  /\ i = 1
  /\ pc = IF NPairs = 0 THEN "done" ELSE "stat"
  /\ files = [p \in Paths |-> NoFile]
  /\ remote = [u \in Locators |-> 1]
  /\ cond = "ok"
  /\ now = 2
  /\ changes = 0
  /\ stat = NoStat
  /\ entries = << >>
  /\ mtime = UnixZero
  /\ err = nil
  /\ feeds = NoFeed
  /\ hresp = << >>
  /\ gresp = << >>
  /\ reqs = << >>
  /\ logs = << >>
  /\ steps = << >>
  /\ before = NoFile
  /\ processed = << >>
  /\ atStart = [p \in Paths |-> NoFile]
  /\ streak = 1
  /\ clean = TRUE

Init == InitWith(PrefixedConfig)

\* the program started with the unprefixed configuration
InitUnprefixed == InitWith(UnprefixedConfig)

cur == Pairs[i]

path == DestPath(cur)

\* log.Println(release, err)
LogLine(e) == [release |-> cur.release, err |-> e]

\* ------------------------------------------------------------- changelog package
\* changelog.ToFeed(link, entries): one item per entry, in the order supplied
ToFeed(link, es) == [Title |-> "", Link |-> link, Items |-> es]

\* ------------------------------------------------------------- file system
\* os.Create on the path: the file exists, is empty, and was modified now
Create(f, t) == [exists |-> TRUE, content |-> [kind |-> "empty"], mtime |-> t]

\* feeds.WriteRss(fh) writing the whole document at time t
WriteAll(f, feed, t) ==
  [exists |-> TRUE, content |-> [kind |-> "feed", feed |-> feed], mtime |-> t]

\* feeds.WriteRss(fh) failing after part of the document was written at time t
WriteShort(f, feed, t) ==
  [exists |-> TRUE, content |-> [kind |-> "partial", feed |-> feed], mtime |-> t]

\* a stamping step that leaves the time of the write in place
ChtimesKeepsWriteTime(f, t) == f

\* os.Chtimes(path, mtime, mtime)
Chtimes(f, t) == [f EXCEPT !.mtime = t]

\* ------------------------------------------------------------- main: loop body
\* "log.Println(release, err); return err": the failure ends the run
LogAndReturn(e) ==
  /\ err' = e
  /\ logs' = Append(logs, LogLine(e))
  /\ streak' = 0 /\ clean' = FALSE
  /\ pc' = "done"

\* a failure path that honours the quiet flag
LogUnlessQuietAndContinue(e) ==
  /\ err' = e
  /\ logs' = IF quiet THEN logs ELSE Append(logs, LogLine(e))
  /\ streak' = 0 /\ clean' = FALSE
  /\ pc' = "next"

\* "log.Println(release, err); continue"
LogAndContinue(e) ==
  /\ err' = e
  /\ logs' = Append(logs, LogLine(e))
  /\ streak' = 0 /\ clean' = FALSE
  /\ pc' = "next"

\* a choice of fetch that asks for the conditional fetch in every case
AfterStatAlwaysHead(exists) == "head"

\* "if os.IsNotExist(err) { repo.ChangeLog() } else { repo.NewerChangeLog(..) }"
AfterStat(exists) == IF exists THEN "head" ELSE "get"

\* lines 128-141: build the Repo, log the pair, stat the destination file
StatStep ==
  /\ pc = "stat"
  /\ \E ok \in BOOLEAN :
       LET started == IF quiet THEN << >>
                      ELSE << [release |-> cur.release,
                               err |-> [kind |-> "processing",
                                        what |-> Repo(cur).URL \o "/" \o Repo(cur).Release]] >>
       IN /\ before' = files[path]
          /\ steps' = << "stat" >>
          /\ reqs' = << >>
          /\ IF ok
             THEN /\ stat' = [exists |-> files[path].exists, ModTime |-> files[path].mtime]
                  /\ logs' = started
                  /\ pc' = AfterStat(files[path].exists)
                  /\ UNCHANGED << err, streak, clean >>
             ELSE /\ stat' = NoStat
                  /\ err' = [kind |-> "stat"]
                  /\ logs' = Append(started, LogLine([kind |-> "stat"]))
                  /\ streak' = 0 /\ clean' = FALSE
                  /\ pc' = "next"
  /\ UNCHANGED << run, quiet, config, i, files, env, entries, mtime, feeds, hresp, gresp,
                  cond, hist >>

\* lines 152-160 with NewerChangeLog lines 23-42: the HEAD request and the
\* comparison with the stored modification time
HeadStep ==
  /\ pc = "head"
  /\ \E c \in Conds :
     LET url == head(Repo(cur), "ChangeLog.txt")
         resp == Serve(remote[url], c, "HEAD", url)
         r == NewerChangeLog(resp, stat.ModTime)
     IN /\ cond' = c
        /\ hresp' = << resp >>
        /\ reqs' = Append(reqs, [method |-> "HEAD", url |-> url])
        /\ steps' = Append(steps, "head")
        /\ IF r.call
           THEN /\ pc' = "get"
                /\ UNCHANGED << entries, mtime, err, logs, streak, clean >>
           ELSE /\ entries' = r.e
                /\ mtime' = r.mtime
                /\ err' = r.err
                /\ logs' = IF r.err = ErrNotNewer /\ quiet THEN logs
                           ELSE Append(logs, LogLine(r.err))
                /\ streak' = IF r.err = NotNewer THEN streak ELSE 0
                /\ clean' = (r.err = NotNewer /\ clean)
                /\ pc' = "next"
  /\ UNCHANGED << run, quiet, config, i, files, env, stat, feeds, gresp, before, hist >>

\* lines 146-151 (and the tail of NewerChangeLog) with ChangeLog lines 50-70:
\* the GET request, the header and the parse
GetStep ==
  /\ pc = "get"
  /\ \E c \in Conds :
     LET url == get(Repo(cur), "ChangeLog.txt")
         resp == Serve(remote[url], c, "GET", url)
         cl == ChangeLog(resp)
         r == IF stat.exists
              THEN NewerReturn(ParseTime(HeaderGet(hresp[1])).t, cl)
              ELSE cl
     IN /\ cond' = c
        /\ gresp' = << resp >>
        /\ reqs' = Append(reqs, [method |-> "GET", url |-> url])
        /\ steps' = Append(steps, "get")
        /\ entries' = r.e
        /\ mtime' = r.mtime
        /\ err' = r.err
        /\ IF r.err # nil
           THEN /\ logs' = Append(logs, LogLine(r.err))
                /\ streak' = 0 /\ clean' = FALSE
                /\ pc' = "next"
           ELSE /\ pc' = "tofeed"
                /\ UNCHANGED << logs, streak, clean >>
  /\ UNCHANGED << run, quiet, config, i, files, env, stat, feeds, hresp, before, hist >>

\* a render step that runs after the destination file was created
ToFeedStepCreatesFirst ==
  /\ pc = "tofeed"
  /\ steps' = Append(steps, "tofeed")
  /\ files' = [files EXCEPT ![path] = Create(@, now)]
  /\ \E ok \in BOOLEAN :
       IF ok
       THEN /\ feeds' = [ToFeed(Repo(cur).URL \o "/" \o cur.release, entries)
                           EXCEPT !.Title = "ChangeLog.txt for " \o cur.mirror.Prefix
                                              \o cur.release]
            /\ pc' = "create"
            /\ UNCHANGED << err, logs, streak, clean >>
       ELSE /\ LogAndContinue([kind |-> "tofeed"])
            /\ UNCHANGED feeds
  /\ UNCHANGED << run, quiet, config, i, env, stat, entries, mtime, hresp, gresp,
                  cond, reqs, before, hist >>

\* lines 164-169: render the entries
ToFeedStep ==
  /\ pc = "tofeed"
  /\ steps' = Append(steps, "tofeed")
  /\ \E ok \in BOOLEAN :
       IF ok
       THEN /\ feeds' = [ToFeed(Repo(cur).URL \o "/" \o cur.release, entries)
                           EXCEPT !.Title = "ChangeLog.txt for " \o cur.mirror.Prefix
                                              \o cur.release]
            /\ pc' = "create"
            /\ UNCHANGED << err, logs, streak, clean >>
       ELSE /\ LogAndContinue([kind |-> "tofeed"])
            /\ UNCHANGED feeds
  /\ UNCHANGED << run, quiet, config, i, files, env, stat, entries, mtime, hresp, gresp,
                  cond, reqs, before, hist >>

\* lines 170-174: os.Create
CreateStep ==
  /\ pc = "create"
  /\ steps' = Append(steps, "create")
  /\ \E ok \in BOOLEAN :
       IF ok
       THEN /\ files' = [files EXCEPT ![path] = Create(@, now)]
            /\ pc' = "write"
            /\ UNCHANGED << err, logs, streak, clean >>
       ELSE /\ LogAndContinue([kind |-> "create"])
            /\ UNCHANGED files
  /\ UNCHANGED << run, quiet, config, i, env, stat, entries, mtime, feeds, hresp, gresp,
                  cond, reqs, before, hist >>

\* lines 175-180: feeds.WriteRss and fh.Close
WriteRssStep ==
  /\ pc = "write"
  /\ steps' = Append(steps, "write")
  /\ \E outcome \in {"ok", "short", "nothing"} :
       CASE outcome = "ok" ->
              /\ files' = [files EXCEPT ![path] = WriteAll(@, feeds, now)]
              /\ pc' = "chtimes"
              /\ UNCHANGED << err, logs, streak, clean >>
         [] outcome = "short" ->
              /\ files' = [files EXCEPT ![path] = WriteShort(@, feeds, now)]
              /\ LogAndContinue([kind |-> "write"])
         [] OTHER ->
              /\ LogAndContinue([kind |-> "write"])
              /\ UNCHANGED files
  /\ UNCHANGED << run, quiet, config, i, env, stat, entries, mtime, feeds, hresp, gresp,
                  cond, reqs, before, hist >>

\* lines 181-185: os.Chtimes to the fetched mtime
ChtimesStep ==
  /\ pc = "chtimes"
  /\ steps' = Append(steps, "chtimes")
  /\ \E ok \in BOOLEAN :
       IF ok
       THEN /\ files' = [files EXCEPT ![path] = Chtimes(@, mtime)]
            /\ pc' = "next"
            /\ UNCHANGED << err, logs, streak, clean >>
       ELSE /\ LogAndContinue([kind |-> "chtimes"])
            /\ UNCHANGED files
  /\ UNCHANGED << run, quiet, config, i, env, stat, entries, mtime, feeds, hresp, gresp,
                  cond, reqs, before, hist >>

\* lines 126-127, 186-188: the range loops move to the next pair, or return
NextRelease ==
  /\ pc = "next"
  /\ processed' = Append(processed, i)
  /\ IF i < NPairs
     THEN i' = i + 1 /\ pc' = "stat"
     ELSE i' = i /\ pc' = "done"
  /\ stat' = NoStat
  /\ entries' = << >>
  /\ mtime' = UnixZero
  /\ err' = nil
  /\ feeds' = NoFeed
  /\ hresp' = << >>
  /\ gresp' = << >>
  /\ cond' = "ok"
  /\ reqs' = << >>
  /\ logs' = << >>
  /\ steps' = << >>
  /\ before' = NoFile
  /\ UNCHANGED << run, quiet, config, files, env, atStart, streak, clean >>

\* the program is started again on the same destination directory
NextRun ==
  /\ pc = "done"
  /\ run < MaxRuns
  /\ NPairs > 0
  /\ run' = run + 1
  /\ i' = 1
  /\ pc' = "stat"
  /\ processed' = << >>
  /\ atStart' = files
  /\ streak' = IF streak > 0 THEN streak + 1
               ELSE IF \A p \in Paths : ~files[p].exists THEN 1 ELSE 0
  /\ clean' = TRUE
  /\ UNCHANGED << quiet, config, files, env, locals, reqs, logs, steps, before >>

\* ------------------------------------------------------------- environment steps
\* the remote is observed only by the HEAD and GET requests of the current
\* pair, so its document changes right before them
EnvMayMove == pc \in {"stat", "get"}

\* the document behind the current pair's locator is replaced by a newer one
RemoteChange ==
  /\ EnvMayMove
  /\ changes < MaxChanges
  /\ LET url == get(Repo(cur), "ChangeLog.txt")
     IN remote' = [remote EXCEPT ![url] = now + 1]
  /\ now' = now + 2
  /\ changes' = changes + 1
  /\ streak' = 0 /\ clean' = FALSE
  /\ UNCHANGED << run, quiet, config, i, pc, files, locals, reqs, logs, steps, before,
                  hist >>

Next ==
  \/ StatStep
  \/ HeadStep
  \/ GetStep
  \/ ToFeedStep
  \/ CreateStep
  \/ WriteRssStep
  \/ ChtimesStep
  \/ NextRelease
  \/ NextRun
  \/ RemoteChange

Spec == Init /\ [][Next]_vars

\* the program run with the unprefixed configuration
SpecUnprefixed == InitUnprefixed /\ [][Next]_vars

FairStep ==
  \/ StatStep
  \/ HeadStep
  \/ GetStep
  \/ ToFeedStep
  \/ CreateStep
  \/ WriteRssStep
  \/ ChtimesStep
  \/ NextRelease

\* the program is sequential and every call it makes returns
FairSpec == Spec /\ WF_vars(FairStep)

\* ------------------------------------------------------------- properties
Last(s) == s[Len(s)]

Range(s) == { s[k] : k \in 1..Len(s) }

\* the pair is over: the loop body has reached its end or a "continue"
PairOver == pc = "next"

\* the fetch of the current pair has just returned to main
FetchReturned ==
  /\ steps # << >>
  /\ Last(steps) \in {"head", "get"}
  /\ pc \in {"next", "tofeed"}

\* main took the NewerChangeLog branch
Conditional == stat.exists

\* the HEAD request was answered with status 200 and a readable Last-Modified
HeadAnswered ==
  /\ hresp # << >>
  /\ hresp[1].err = nil
  /\ hresp[1].StatusCode = 200
  /\ hresp[1].LastModified.present
  /\ hresp[1].LastModified.text[1] = "http-date"

\* the time the HEAD request reported
HeadTime == hresp[1].LastModified.text[2]

\* the modification times of the remote documents a file's content came from
SourceTimes(f) ==
  IF f.content.kind \in {"feed", "partial"}
  THEN { f.content.feed.Items[k].lm : k \in 1..Len(f.content.feed.Items) }
  ELSE {}

\* what main holds after its fetch call
Fetched == [e |-> entries, mtime |-> mtime, err |-> err]

\* what Repo.ChangeLog returns against the current pair's locator right now
UnconditionalNow ==
  LET url == get(Repo(cur), "ChangeLog.txt")
  IN ChangeLog(Serve(remote[url], cond, "GET", url))

\* C1 (as claimed): between two releases and at the end of a run, a feed file
\* is absent or its modification time is the Last-Modified time of the remote
\* document its content was rendered from.
C1_MarkerIsSourceTime ==
  pc \in {"stat", "next", "done"} =>
    \A p \in Paths : files[p].exists => files[p].mtime \in SourceTimes(files[p])

\* C2 (as claimed): when the fetch succeeded with entries and creating or
\* writing the destination file fails, nothing is stamped and the file is as
\* it was before the release.
C2_FailedWriteKeepsFile ==
  (PairOver /\ entries # << >> /\ err.kind \in {"create", "write"}) =>
    /\ "chtimes" \notin Range(steps)
    /\ files[path] = before

\* C3: a conditional fetch returns NotNewer exactly when its HEAD request was
\* answered with a readable time M and M is not strictly after knownFreshAsOf
\* (M equal to it included); no failure of either request returns NotNewer.
C3_NotNewerIffNotAfter ==
  (FetchReturned /\ Conditional) =>
    ((err = NotNewer) <=> (HeadAnswered /\ ~(HeadTime > stat.ModTime)))

C3_Witness ==
  /\ FetchReturned
  /\ Conditional
  /\ HeadAnswered
  /\ HeadTime = stat.ModTime
  /\ err = NotNewer

\* C4 (as claimed): whenever the conditional fetch does not return NotNewer,
\* its result is what the unconditional fetch would return at that instant.
C4_AlwaysLikeUnconditional ==
  (FetchReturned /\ Conditional /\ err # NotNewer) => Fetched = UnconditionalNow

\* C4 (amended): whenever the HEAD request was answered with a readable time
\* strictly after knownFreshAsOf, the conditional fetch issues the GET request
\* and its result is what the unconditional fetch returns for that request.
C4_NewerLikeUnconditional ==
  (FetchReturned /\ Conditional /\ HeadAnswered /\ HeadTime > stat.ModTime) =>
    /\ gresp # << >>
    /\ Fetched = UnconditionalNow

C4_Witness ==
  /\ FetchReturned
  /\ Conditional
  /\ HeadAnswered
  /\ HeadTime > stat.ModTime
  /\ err = nil
  /\ mtime # HeadTime

\* C5: in a run on an empty directory without failures a pair issues one GET
\* and leaves its file stamped with the remote time; in the next run, with
\* the remote unchanged, it issues one HEAD, gets NotNewer, writes nothing,
\* and the directory ends as the run before left it.
C5_SecondRunWritesNothing ==
  LET url == get(Repo(cur), "ChangeLog.txt") IN
  /\ (PairOver /\ streak = 1) =>
       /\ reqs = << [method |-> "GET", url |-> url] >>
       /\ steps = << "stat", "get", "tofeed", "create", "write", "chtimes" >>
       /\ files[path].content.kind = "feed"
       /\ files[path].mtime = remote[url]
  /\ (PairOver /\ streak >= 2) =>
       /\ reqs = << [method |-> "HEAD", url |-> url] >>
       /\ steps = << "stat", "head" >>
       /\ err = NotNewer
       /\ files[path] = before
       /\ files[path].mtime = remote[url]
  /\ (pc = "done" /\ streak >= 2) => files = atStart

C5_Witness ==
  /\ pc = "done"
  /\ streak = 2
  /\ files = atStart
  /\ \A p \in Paths : files[p].content.kind = "feed"

\* C6: after a release whose fetch, render, write and stamping all succeeded
\* the file's modification time is the time the GET request returned, which is
\* the time of the document the written entries came from, and not the time of
\* the write.
C6_StampIsFetchedTime ==
  (PairOver /\ steps # << >> /\ Last(steps) = "chtimes" /\ err = nil) =>
    /\ files[path].mtime = gresp[1].LastModified.text[2]
    /\ files[path].content.kind = "feed"
    /\ files[path].content.feed.Items = entries
    /\ SourceTimes(files[path]) = {files[path].mtime}
    /\ files[path].mtime # now

C6_Witness ==
  /\ PairOver
  /\ steps # << >>
  /\ Last(steps) = "chtimes"
  /\ err = nil
  /\ HeadAnswered
  /\ HeadTime # files[path].mtime

\* C7: whatever fails, every run ends, and when it ends every configured pair
\* has been processed exactly once, in configuration order.  (A run starts
\* only when the one before has ended, so every run ends exactly when the
\* program is at its end again and again.)
C7_EveryPairOnceInOrder ==
  /\ [](processed = [k \in 1..(IF pc = "done" THEN NPairs ELSE i - 1) |-> k])
  /\ []<>(pc = "done")

C7_Witness ==
  /\ pc = "done"
  /\ processed = [k \in 1..NPairs |-> k]
  /\ files[DestPath(Pairs[1])].content.kind = "partial"
  /\ files[DestPath(Pairs[NPairs])].content.kind = "feed"
  /\ files[DestPath(Pairs[NPairs])].mtime = remote[get(Repo(Pairs[NPairs]), "ChangeLog.txt")]

\* a 200 response whose Last-Modified header is missing or unreadable
BadHeader(resp) ==
  /\ resp.err = nil
  /\ resp.StatusCode = 200
  /\ \/ ~resp.LastModified.present
     \/ resp.LastModified.text[1] # "http-date"

\* C8: a missing or unreadable Last-Modified header fails the release on
\* both requests: after HEAD the error is not NotNewer and no GET is issued,
\* after GET no entries are returned, and nothing is written or stamped.
C8_BadHeaderFails ==
  /\ (hresp # << >> /\ BadHeader(hresp[1])) =>
       /\ PairOver
       /\ err = [kind |-> "parsetime"]
       /\ entries = << >>
       /\ gresp = << >>
       /\ reqs = << [method |-> "HEAD", url |-> hresp[1].URL] >>
       /\ steps = << "stat", "head" >>
       /\ files[path] = before
  /\ (gresp # << >> /\ BadHeader(gresp[1])) =>
       /\ PairOver
       /\ err = [kind |-> "parsetime"]
       /\ entries = << >>
       /\ Last(steps) = "get"
       /\ files[path] = before

C8_Witness ==
  /\ hresp # << >>
  /\ BadHeader(hresp[1])
  /\ ~hresp[1].LastModified.present
  /\ PairOver
  /\ err # NotNewer
  /\ gresp = << >>

\* the answer to the latest request of the current pair
LastResp == IF gresp # << >> THEN gresp[1] ELSE hresp[1]

C10_LocatorHasRelease ==
  \A k \in 1..Len(reqs) :
    reqs[k].url = cur.mirror.URL \o "/" \o cur.release \o "/ChangeLog.txt"

\* C11 (as claimed): no two configured pairs share a destination path, so a
\* step taken for one pair never changes the file of another pair.
C11_PairsOwnTheirPaths ==
  [][\A k \in 1..NPairs :
       k # i => files'[DestPath(Pairs[k])] = files[DestPath(Pairs[k])]]_vars

\* C12: when a pair is over with an error, the error is logged with its
\* release, except NotNewer under the quiet flag: NotNewer is logged when
\* quiet is off, every other error is logged whether quiet is on or off.
C12_OnlyNotNewerSuppressed ==
  (PairOver /\ err # nil) =>
    /\ (LogLine(err) \in Range(logs)) <=> ~(err = NotNewer /\ quiet)
    /\ \A k \in 1..Len(logs) :
         logs[k].err.kind # "processing" => (k = Len(logs) /\ logs[k] = LogLine(err))

C12_Witness ==
  /\ PairOver
  /\ quiet
  /\ err = NotNewer
  /\ logs = << >>

\* the steps of a pair whose file is absent, and of one whose file exists
StepsUnconditional == << "stat", "get", "tofeed", "create", "write", "chtimes" >>

StepsConditional == << "stat", "head", "get", "tofeed", "create", "write", "chtimes" >>

\* the GET request was answered with status 200, a readable Last-Modified and
\* a body that parses
GetAnswered ==
  /\ gresp # << >>
  /\ gresp[1].err = nil
  /\ gresp[1].StatusCode = 200
  /\ gresp[1].LastModified.present
  /\ gresp[1].LastModified.text[1] = "http-date"
  /\ gresp[1].Body.wellformed

\* C13: the stat taken at the start of a pair decides the fetch: no file, the
\* unconditional fetch; a file, the conditional fetch against that file's
\* modification time; a stat error, no request and no write.  Render, create,
\* write and stamp follow in that order, each only after the one before
\* succeeded, and only after the fetch returned entries without error.
C13_ModeFromStat ==
  steps # << >> =>
    /\ steps = SubSeq(IF before.exists THEN StepsConditional ELSE StepsUnconditional,
                      1, Len(steps))
    /\ IF err = [kind |-> "stat"]
       THEN /\ PairOver
            /\ steps = << "stat" >>
            /\ reqs = << >>
            /\ files[path] = before
       ELSE stat = [exists |-> before.exists, ModTime |-> before.mtime]
    /\ reqs # << >> =>
         reqs[1].method = (IF before.exists THEN "HEAD" ELSE "GET")
    /\ (FetchReturned /\ before.exists) =>
         ((err = NotNewer) <=> (HeadAnswered /\ ~(HeadTime > before.mtime)))
    /\ "tofeed" \in Range(steps) =>
         /\ GetAnswered
         /\ entries = gresp[1].Body.blocks
         /\ entries # << >>
    /\ "create" \in Range(steps) => (feeds # NoFeed /\ feeds.Items = entries)
    /\ "chtimes" \in Range(steps) =>
         (files[path].content = [kind |-> "feed", feed |-> feeds])

C13_Witness ==
  /\ PairOver
  /\ before.exists
  /\ steps = StepsConditional
  /\ err = nil
  /\ files[path].mtime = mtime

\* C14 (as claimed): no step other than the stamping step changes the
\* modification time of an existing destination file.
C14_OnlyStampingSetsMtime ==
  [][pc # "chtimes" =>
       \A p \in Paths : files[p].exists => files'[p].mtime = files[p].mtime]_vars

\* the methods of the requests issued for the current pair, in order
Methods == [k \in 1..Len(reqs) |-> reqs[k].method]

\* C15: a pair issues at most one HEAD and at most one GET and is processed
\* once per run; with no file there is no HEAD; with a file the HEAD comes
\* first and a GET follows only a HEAD answered with a readable time strictly
\* after the file's modification time.
C15_SingleAttempt ==
  /\ Methods \in { << >>, << "HEAD" >>, << "GET" >>, << "HEAD", "GET" >> }
  /\ (steps # << >> /\ ~before.exists) => "HEAD" \notin Range(Methods)
  /\ (steps # << >> /\ before.exists) => Methods # << "GET" >>
  /\ Methods = << "HEAD", "GET" >> => (HeadAnswered /\ HeadTime > stat.ModTime)
  /\ pc # "done" => i \notin Range(processed)

C15_Witness ==
  /\ PairOver
  /\ Methods = << "HEAD", "GET" >>
  /\ cond # "ok"

\* C16: a pair that ends before the create step (stat error, failed HEAD or
\* GET, bad header, parse error, NotNewer, render error) leaves its
\* destination file as it was: same content and time, or still absent.
C16_EarlyExitKeepsFile ==
  (PairOver /\ "create" \notin Range(steps)) => files[path] = before

C16_Witness ==
  /\ PairOver
  /\ err = [kind |-> "tofeed"]
  /\ before.exists
  /\ files[path] = before

\* the destination file of pair k holds the feed of the current remote
\* document and carries that document's modification time
Recovered(k) ==
  LET f == files[DestPath(Pairs[k])]
      t == remote[get(Repo(Pairs[k]), "ChangeLog.txt")]
  IN /\ f.exists
     /\ f.content.kind = "feed"
     /\ SourceTimes(f) = {t}
     /\ f.mtime = t

\* C17 (as claimed): a run in which no step fails and no remote changes ends
\* with every destination file holding the feed of the current remote
\* document, stamped with its time, whatever happened in earlier runs.
C17_CleanRunRecovers ==
  (pc = "done" /\ clean) => \A k \in 1..NPairs : Recovered(k)

\* a run without failure or remote change that ends with a file not recovered
\* has left that file as it was when the run began, so the next such run
\* starts from the same file and ends the same way
UnrecoveredStaysUnrecovered ==
  (pc = "done" /\ clean) =>
    \A k \in 1..NPairs :
      ~Recovered(k) => files[DestPath(Pairs[k])] = atStart[DestPath(Pairs[k])]

====
